---- MODULE Spec2Model ----
(***************************************************************************)
(* Model of src/TB6612FNG.py: the MotorDriverTB6612FNG class, a driver     *)
(* that encodes motor commands into byte frames and writes them to an I2C  *)
(* peripheral.                                                             *)
(*                                                                         *)
(* State of the object: addr (self._addr) and buffer (self._buffer).       *)
(* Observation of the most recent method call: call (method and            *)
(* arguments), writes (the calls made on the I2C object during it, in      *)
(* order) and err (the exception it ended with, "none" when it returned).  *)
(***************************************************************************)
EXTENDS Integers, Sequences, FiniteSets

VARIABLES addr, buffer, call, writes, err

vars == <<addr, buffer, call, writes, err>>

(***************************************************************************)
(* Bounds of the inputs.                                                   *)
(***************************************************************************)
\* every threshold of the code is explored Margin values to each side
Margin == 1

Around(x) == (x - Margin)..(x + Margin)

\* class TB6612FNGCodes
GMD_I2C_ADDRESS == 20
GMD_CMD_BRAKE == 0
GMD_CMD_STOP == 1
GMD_CMD_CW == 2
GMD_CMD_CCW == 3
GMD_CMD_STANDBY == 4
GMD_CMD_NOT_STANDBY == 5
GMD_CMD_STEPPER_RUN == 6
GMD_CMD_STEPPER_STOP == 7
GMD_CMD_STEPPER_KEEP_RUN == 8
GMD_CMD_SET_ADDR == 17

\* class TB6612FNGMotors
MOTOR_CHA == 0
MOTOR_CHB == 1

\* class TB6612FNGStepper
FULL_STEP == 0
WAVE_DRIVE == 1
HALF_STEP == 2
MICRO_STEPPING == 3

Channels == {MOTOR_CHA, MOTOR_CHB}
Modes == {FULL_STEP, WAVE_DRIVE, HALF_STEP, MICRO_STEPPING}

\* arguments the callers pass
ModeInputs == {WAVE_DRIVE, MICRO_STEPPING}
AddrInputs == Around(0) \cup Around(128)
SpeedInputs == Around(-255) \cup Around(0) \cup Around(255)
StepsInputs == (-32768..(-32768 + Margin)) \cup Around(0) \cup {32767}
RpmInputs == Around(1) \cup Around(300)

(***************************************************************************)
(* Python and MicroPython primitives the class uses.                       *)
(***************************************************************************)
\* bytes(n) with an int n: n zero bytes (not the one byte n)
BytesOfInt(n) == [i \in 1..n |-> 0]

\* bytes([a, b, ...]): the listed bytes
BytesOfList(l) == l

\* bytearray(n): n zero bytes
Bytearray(n) == [i \in 1..n |-> 0]

\* x & 0xFF on a Python int (two's complement of unbounded width)
Low8(x) == x % 256

\* x >> 8 on a Python int (arithmetic shift: floor division)
Shr8(x) == x \div 256

\* the methods of machine.I2C; any other attribute raises AttributeError
I2CMethods == {"init", "deinit", "scan", "start", "stop", "readinto", "write",
               "readfrom", "readfrom_into", "writeto", "writevto",
               "readfrom_mem", "readfrom_mem_into", "writeto_mem"}

\* one call self._i2c_bus.writeto(address, frame, stop); ok tells whether it
\* returned (TRUE) or raised OSError (FALSE)
Write(address, frame, stop, ok) ==
    [method |-> "writeto", address |-> address, frame |-> frame, stop |-> stop,
     ok |-> ok]

\* what a call on the bus ends with: it returns, or raises OSError
BusResult(ok) == IF ok THEN "none" ELSE "OSError"

(***************************************************************************)
(* __init__(address), called with the default address: stores the address  *)
(* and calls standby().  A constructor whose write raises leaves no object *)
(* behind, so the initial state is that of a successful construction.      *)
(***************************************************************************)
StandbyWrite(a, ok) == Write(a, BytesOfInt(GMD_CMD_STANDBY), FALSE, ok)

Init ==
    \E address \in {GMD_I2C_ADDRESS} :
        /\ addr = address
        /\ buffer = <<>>
        /\ call = [op |-> "__init__", address |-> address]
        /\ writes = <<StandbyWrite(address, TRUE)>>
        /\ err = "none"

standby ==
    \E ok \in BOOLEAN :
        /\ call' = [op |-> "standby"]
        /\ writes' = <<StandbyWrite(addr, ok)>>
        /\ err' = BusResult(ok)
        /\ UNCHANGED <<addr, buffer>>

not_standby ==
    \E ok \in BOOLEAN :
        /\ call' = [op |-> "not_standby"]
        /\ writes' = <<Write(addr, BytesOfInt(GMD_CMD_NOT_STANDBY), FALSE, ok)>>
        /\ err' = BusResult(ok)
        /\ UNCHANGED <<addr, buffer>>

(***************************************************************************)
(* set_i2c_addr(addr)                                                      *)
(***************************************************************************)
\* AddrRejected with the second comparison off by one
AddrRejected_offByOne(a) == a = 0 \/ a > 128

\* the two early returns: addr == 0x00, addr >= 0x80
AddrRejected(a) == a = 0 \/ a >= 128

\* AddrAfterSet with the assignment made before the write
AddrAfterSet_assignFirst(old, new, ok) == new

\* self._addr after the write: the assignment is reached only if the write
\* returned
AddrAfterSet(old, new, ok) == IF ok THEN new ELSE old

set_i2c_addr ==
    \E a \in AddrInputs, ok \in BOOLEAN :
        /\ call' = [op |-> "set_i2c_addr", addr |-> a]
        /\ IF AddrRejected(a)
           THEN /\ writes' = <<>>
                /\ err' = "none"
                /\ addr' = addr
           ELSE /\ writes' = <<Write(addr, BytesOfInt(GMD_CMD_SET_ADDR), TRUE, ok)>>
                /\ err' = BusResult(ok)
                /\ addr' = AddrAfterSet(addr, a, ok)
        /\ UNCHANGED buffer

(***************************************************************************)
(* dc_motor_run(chl, speed), dc_motor_break(chl), dc_motor_stop(chl)       *)
(***************************************************************************)
\* ClampSpeed without the lower clamp
ClampSpeed_noLower(speed) == IF speed > 255 THEN 255 ELSE speed

ClampSpeed(speed) ==
    IF speed > 255 THEN 255
    ELSE IF speed < -255 THEN -255
    ELSE speed

DcRunFrame(chl, speed) ==
    LET s == ClampSpeed(speed)
        b0 == Bytearray(3)
        b1 == IF s >= 0
              THEN [[b0 EXCEPT ![1] = GMD_CMD_CW] EXCEPT ![3] = s]
              ELSE [[b0 EXCEPT ![1] = GMD_CMD_CCW] EXCEPT ![3] = -s]
    IN  [b1 EXCEPT ![2] = chl]

dc_motor_run ==
    \E chl \in Channels, speed \in SpeedInputs, ok \in BOOLEAN :
        /\ call' = [op |-> "dc_motor_run", chl |-> chl, speed |-> speed]
        /\ buffer' = DcRunFrame(chl, speed)
        /\ writes' = <<Write(addr, buffer', TRUE, ok)>>
        /\ err' = BusResult(ok)
        /\ UNCHANGED addr

dc_motor_break ==
    \E chl \in Channels, ok \in BOOLEAN :
        /\ call' = [op |-> "dc_motor_break", chl |-> chl]
        /\ writes' = <<Write(addr, BytesOfList(<<GMD_CMD_BRAKE, chl>>), TRUE, ok)>>
        /\ err' = BusResult(ok)
        /\ UNCHANGED <<addr, buffer>>

dc_motor_stop ==
    \E chl \in Channels, ok \in BOOLEAN :
        /\ call' = [op |-> "dc_motor_stop", chl |-> chl]
        /\ writes' = <<Write(addr, BytesOfList(<<GMD_CMD_STOP, chl>>), TRUE, ok)>>
        /\ err' = BusResult(ok)
        /\ UNCHANGED <<addr, buffer>>

(***************************************************************************)
(* stepper_stop(), stepper_run(mode, steps, rpm),                          *)
(* stepper_keep_run(mode, rpm, is_cw)                                      *)
(***************************************************************************)
StepperStopWrite(a, ok) == Write(a, BytesOfInt(GMD_CMD_STEPPER_STOP), TRUE, ok)

stepper_stop ==
    \E ok \in BOOLEAN :
        /\ call' = [op |-> "stepper_stop"]
        /\ writes' = <<StepperStopWrite(addr, ok)>>
        /\ err' = BusResult(ok)
        /\ UNCHANGED <<addr, buffer>>

\* cw as the if/elif chain of stepper_run leaves it
StepperCw(steps) == IF steps > 0 THEN 1 ELSE 0

\* StepsMagnitude without the branch for -32768
StepsMagnitude_noMin(steps) == IF steps >= 0 THEN steps ELSE -steps

\* steps as the if/elif chain of stepper_run leaves it
StepsMagnitude(steps) ==
    IF steps > 0 THEN steps
    ELSE IF steps = 0 THEN steps
    ELSE IF steps = -32768 THEN 32767
    ELSE -steps

\* ClampRpm without the upper clamp
ClampRpm_noUpper(rpm) == IF rpm < 1 THEN 1 ELSE rpm

ClampRpm(rpm) ==
    IF rpm < 1 THEN 1
    ELSE IF rpm > 300 THEN 300
    ELSE rpm

\* int(3000.0 / rpm) for the clamped rpm, 1 <= rpm <= 300: the float quotient
\* is exact when rpm divides 3000 and is otherwise at least 1/300 away from
\* an integer, so truncating it gives the integer quotient
MsPerStep(rpm) == 3000 \div ClampRpm(rpm)

StepperRunFrame(mode, steps, rpm) ==
    LET s == StepsMagnitude(steps)
        ms == MsPerStep(rpm)
    IN  [Bytearray(7) EXCEPT ![1] = GMD_CMD_STEPPER_RUN,
                             ![2] = mode,
                             ![3] = StepperCw(steps),
                             ![4] = Low8(s),
                             ![5] = Low8(Shr8(s)),
                             ![6] = Low8(ms),
                             ![7] = Low8(Shr8(ms))]

\* steps == 0 calls stepper_stop() and, not returning, goes on to build and
\* write the run frame; an OSError of stepper_stop() ends the call there
stepper_run ==
    \E mode \in ModeInputs, steps \in StepsInputs, rpm \in RpmInputs,
       okStop \in BOOLEAN, ok \in BOOLEAN :
        /\ (steps # 0 => okStop)
        /\ call' = [op |-> "stepper_run", mode |-> mode, steps |-> steps, rpm |-> rpm]
        /\ IF steps = 0 /\ ~okStop
           THEN /\ buffer' = Bytearray(7)
                /\ writes' = <<StepperStopWrite(addr, FALSE)>>
                /\ err' = BusResult(FALSE)
           ELSE /\ buffer' = StepperRunFrame(mode, steps, rpm)
                /\ writes' = (IF steps = 0 THEN <<StepperStopWrite(addr, TRUE)>> ELSE <<>>)
                                \o <<Write(addr, buffer', TRUE, ok)>>
                /\ err' = BusResult(ok)
        /\ UNCHANGED addr

KeepRunFrame(mode, rpm, is_cw) ==
    LET cw == IF is_cw THEN 5 ELSE 4
        ms == MsPerStep(rpm)
    IN  [Bytearray(5) EXCEPT ![1] = GMD_CMD_STEPPER_KEEP_RUN,
                             ![2] = mode,
                             ![3] = cw,
                             ![4] = Low8(ms),
                             ![5] = Low8(Shr8(ms))]

\* the method the frame is sent with
KeepRunMethod == "write_i2c_block_data"

\* the frame is built, then self._i2c_bus.write_i2c_block_data is looked up
stepper_keep_run ==
    \E mode \in ModeInputs, rpm \in RpmInputs, is_cw \in BOOLEAN, ok \in BOOLEAN :
        /\ call' = [op |-> "stepper_keep_run", mode |-> mode, rpm |-> rpm, is_cw |-> is_cw]
        /\ buffer' = KeepRunFrame(mode, rpm, is_cw)
        /\ IF KeepRunMethod \in I2CMethods
           THEN /\ writes' = <<[method |-> KeepRunMethod, address |-> addr,
                                frame |-> buffer', stop |-> TRUE, ok |-> ok]>>
                /\ err' = BusResult(ok)
           ELSE /\ writes' = <<>>
                /\ err' = "AttributeError"
        /\ UNCHANGED addr

Next ==
    \/ standby
    \/ not_standby
    \/ set_i2c_addr
    \/ dc_motor_run
    \/ dc_motor_break
    \/ dc_motor_stop
    \/ stepper_stop
    \/ stepper_run
    \/ stepper_keep_run

Spec == Init /\ [][Next]_vars

(***************************************************************************)
(* Properties.                                                             *)
(***************************************************************************)
Abs(x) == IF x < 0 THEN -x ELSE x
Min(x, y) == IF x < y THEN x ELSE y
Max(x, y) == IF x > y THEN x ELSE y

\* the period the documentation asks for
PeriodOf(rpm) == 3000 \div Min(300, Max(1, rpm))

\* the frames handed to the bus during the last call
Frames == [i \in 1..Len(writes) |-> writes[i].frame]

\* C1: stepper_run(mode, 0, rpm) hands the bus exactly what stepper_stop()
\* hands it, one write to the current address, and no frame that starts
\* with GMD_CMD_STEPPER_RUN.
C1_RunZeroIsStop ==
    (call.op = "stepper_run" /\ call.steps = 0) =>
        /\ \E ok \in BOOLEAN : writes = <<StepperStopWrite(addr, ok)>>
        /\ \A i \in 1..Len(writes) : writes[i].frame[1] # GMD_CMD_STEPPER_RUN

\* C2: set_i2c_addr(a) with a in 1..127 writes exactly one frame, the single
\* byte 0x11, to the address held before the call and then stores a; every
\* frame of any command goes to the address stored before that command, and
\* only a successful set_i2c_addr changes the stored address.
C2_SetAddressFrame ==
    [][ /\ (call'.op = "set_i2c_addr" /\ call'.addr \in 1..127) =>
            /\ Len(writes') = 1
            /\ writes'[1].frame = <<GMD_CMD_SET_ADDR>>
            /\ writes'[1].address = addr
            /\ (writes'[1].ok => addr' = call'.addr)
        /\ \A i \in 1..Len(writes') : writes'[i].address = addr
        /\ (addr' # addr => (call'.op = "set_i2c_addr" /\ err' = "none"))
      ]_vars

\* C3: a controller constructed with the default address always holds an
\* address in 1..127, whatever integer set_i2c_addr is called with.
C3_AddressInRange ==
    addr \in 1..127

\* C4: set_i2c_addr(a) with a = 0 or a >= 128 writes nothing, raises nothing
\* and changes nothing.
C4_RejectedAddressNoOp ==
    [][ (call'.op = "set_i2c_addr" /\ (call'.addr = 0 \/ call'.addr >= 128)) =>
            /\ writes' = <<>>
            /\ err' = "none"
            /\ addr' = addr
            /\ buffer' = buffer
      ]_vars

C4_Witness ==
    /\ call.op = "set_i2c_addr"
    /\ call.addr >= 128
    /\ writes = <<>>
    /\ err = "none"

\* C5: standby(), not_standby() and stepper_stop() each write the one byte
\* of their command code, 0x04, 0x05 and 0x07; construction writes the
\* one-byte 0x04 frame to the address it was given.
C5_OneByteFrames ==
    /\ call.op = "standby" => Frames = <<(<<GMD_CMD_STANDBY>>)>>
    /\ call.op = "not_standby" => Frames = <<(<<GMD_CMD_NOT_STANDBY>>)>>
    /\ call.op = "stepper_stop" => Frames = <<(<<GMD_CMD_STEPPER_STOP>>)>>
    /\ call.op = "__init__" =>
           /\ Frames = <<(<<GMD_CMD_STANDBY>>)>>
           /\ writes[1].address = call.address

\* C6: stepper_keep_run(mode, rpm, is_cw) hands the bus, through its write
\* operation, exactly one frame [0x08, mode, dir, period_lo, period_hi] for
\* the current address, dir being 5 when is_cw and 4 otherwise, and ends
\* without error unless the bus write fails.
C6_KeepRunFrame ==
    call.op = "stepper_keep_run" =>
        /\ Len(writes) = 1
        /\ writes[1].address = addr
        /\ writes[1].frame = <<GMD_CMD_STEPPER_KEEP_RUN, call.mode,
                               IF call.is_cw THEN 5 ELSE 4,
                               PeriodOf(call.rpm) % 256,
                               PeriodOf(call.rpm) \div 256>>
        /\ (writes[1].ok => err = "none")

\* C7: stepper_run(mode, steps, rpm) with steps # 0 in -32768..32767 writes
\* one 7-byte frame [0x06, mode, cw, m mod 256, m div 256, p mod 256,
\* p div 256], cw = 1 iff steps > 0, m = |steps| except m = 32767 for
\* steps = -32768, p the period.
C7_StepperRunFrame ==
    (call.op = "stepper_run" /\ call.steps # 0) =>
        LET m == IF call.steps = -32768 THEN 32767 ELSE Abs(call.steps)
            p == PeriodOf(call.rpm)
        IN  /\ Len(writes) = 1
            /\ writes[1].address = addr
            /\ writes[1].frame = <<GMD_CMD_STEPPER_RUN, call.mode,
                                   IF call.steps > 0 THEN 1 ELSE 0,
                                   m % 256, m \div 256, p % 256, p \div 256>>

C7_Witness ==
    /\ call.op = "stepper_run"
    /\ call.steps = -32768
    /\ Len(writes) = 1
    /\ writes[1].frame[3] = 0
    /\ writes[1].frame[4] = 255
    /\ writes[1].frame[5] = 127

\* the period held by the frame a stepper call has encoded in self._buffer;
\* at is the index of its low byte
EncodedPeriod(at) == buffer[at] + 256 * buffer[at + 1]

\* C8: the period stepper_run and stepper_keep_run encode is
\* floor(3000 / min(300, max(1, rpm))), hence within 10..3000, and the same
\* in both for the same rpm.
C8_Period ==
    /\ (call.op = "stepper_run" /\ buffer[1] = GMD_CMD_STEPPER_RUN) =>
           /\ EncodedPeriod(6) = PeriodOf(call.rpm)
           /\ EncodedPeriod(6) \in 10..3000
    /\ call.op = "stepper_keep_run" =>
           /\ buffer[1] = GMD_CMD_STEPPER_KEEP_RUN
           /\ EncodedPeriod(4) = PeriodOf(call.rpm)
           /\ EncodedPeriod(4) \in 10..3000

C8_Witness ==
    /\ call.op = "stepper_keep_run"
    /\ call.rpm > 300
    /\ buffer[4] = 10
    /\ buffer[5] = 0

\* C9: dc_motor_run(chl, speed) writes exactly one 3-byte frame
\* [code, chl, min(255, |speed|)], code 0x02 for speed >= 0 and 0x03 for
\* speed < 0, for every integer speed; the only error is the bus's.
C9_DcRunFrame ==
    call.op = "dc_motor_run" =>
        /\ Len(writes) = 1
        /\ writes[1].address = addr
        /\ writes[1].frame = <<IF call.speed >= 0 THEN GMD_CMD_CW ELSE GMD_CMD_CCW,
                               call.chl, Min(255, Abs(call.speed))>>
        /\ err = (IF writes[1].ok THEN "none" ELSE "OSError")

C9_Witness ==
    /\ call.op = "dc_motor_run"
    /\ call.speed < -255
    /\ writes[1].frame = <<GMD_CMD_CCW, call.chl, 255>>

\* C10: when the bus write of set_i2c_addr(a), a in 1..127, fails, the call
\* ends with that error and the stored address keeps its value.
C10_FailedSetKeepsAddress ==
    [][ (call'.op = "set_i2c_addr" /\ call'.addr \in 1..127 /\ Len(writes') = 1
            /\ ~writes'[1].ok) =>
            /\ err' = "OSError"
            /\ addr' = addr
      ]_vars

C10_Witness ==
    /\ call.op = "set_i2c_addr"
    /\ call.addr \in 1..127
    /\ Len(writes) = 1
    /\ ~writes[1].ok
    /\ err = "OSError"
    /\ addr # call.addr

====
